---- MODULE Spec2Model ----
(***************************************************************************)
(* FleetFlow Lite (src/app.py, src/init_db.py): a Flask application over   *)
(* an SQLite database.  The state is the database tables, the signed       *)
(* session cookie of every browser, the message the last request flashed   *)
(* and the calendar day.  Every request handler is one action that models  *)
(* the whole handler, its rejections included.                             *)
(***************************************************************************)
EXTENDS Integers, Sequences, FiniteSets, TLC

VARIABLES
    phase,            \* position in init_db.py's start-up sequence
    users,            \* table users: id -> row
    userSeq,          \* AUTOINCREMENT counter of users
    session,          \* browser -> session cookie
    flashed,          \* category of the last request's flash ("" when none)
    vehicles,         \* table vehicles: id -> row
    vehicleSeq,
    drivers,          \* table drivers: id -> row
    driverSeq,
    trips,            \* table trips: id -> row
    tripSeq,
    maintenance_logs, \* table maintenance_logs, in insertion order
    fuel_logs,        \* table fuel_logs, in insertion order
    today,            \* date.today(), as a day number
    inflight          \* requests between their read and their write (SpecRace)

userVars  == <<users, userSeq>>
fleetVars == <<vehicles, vehicleSeq, drivers, driverSeq, trips, tripSeq,
               maintenance_logs, fuel_logs>>
vars == <<phase, users, userSeq, session, flashed, vehicles, vehicleSeq,
          drivers, driverSeq, trips, tripSeq, maintenance_logs, fuel_logs,
          today, inflight>>

---------------------------------------------------------------------------
(* Bounds of the model *)

MaxUsers == 3
MaxBrowsers == 2
MaxVehicles == 1
MaxDrivers == 1
MaxTrips == 1
MaxLogs == 1
MaxDay == 2
MaxWorkers == 2
MaxHires == 1
MaxYard == 2
MaxRuns == 2

---------------------------------------------------------------------------
(* Constants of the program *)

ASSIGNABLE_ROLES == {"Dispatcher", "Safety Officer", "Financial Analyst"}
STATUS_PENDING == "pending"
STATUS_APPROVED == "approved"
STATUS_REJECTED == "rejected"

AllRoles == {"Manager"} \cup ASSIGNABLE_ROLES

\* SQL NULL in a text column
Null == "<NULL>"

\* session.clear(): no key is set
NoSession == [user_id |-> 0, username |-> "", role |-> ""]

\* The browsers of the staffed deployment: one without a session and one
\* per role.
StaffClients == 1..5

Browsers == 1..MaxBrowsers

---------------------------------------------------------------------------
(* Text conversions of the form fields *)

\* str.strip()
Strip(s) ==
    CASE s = " " -> ""
      [] s = " a@x" -> "a@x"
      [] OTHER -> s

\* str.lower() and SQL lower()
Lower(s) ==
    CASE s = "A@X" -> "a@x"
      [] s = "B@X" -> "b@x"
      [] s = "MANAGER" -> "manager"
      [] OTHER -> s

\* werkzeug's generate_password_hash / check_password_hash: a hash matches
\* exactly the password it was made from.
generate_password_hash(password) == <<"hash", password>>

check_password_hash(pwhash, password) == pwhash = generate_password_hash(password)

---------------------------------------------------------------------------
(* Start-up: init_db.py runs initialize_database, ensure_schema_updates,   *)
(* seed_default_users in this order.                                       *)

EmptyTable == <<>>

\* A worker that serves no request
Idle == [op |-> "idle"]
Workers == 1..MaxWorkers

Init ==
    /\ phase = "new"
    /\ users = EmptyTable
    /\ userSeq = 0
    /\ session = [c \in StaffClients |-> NoSession]
    /\ flashed = ""
    /\ vehicles = EmptyTable
    /\ vehicleSeq = 0
    /\ drivers = EmptyTable
    /\ driverSeq = 0
    /\ trips = EmptyTable
    /\ tripSeq = 0
    /\ maintenance_logs = <<>>
    /\ fuel_logs = <<>>
    /\ today = 1
    /\ inflight = [w \in Workers |-> Idle]

\* schema.sql creates the tables; it holds no rows.
initialize_database ==
    /\ phase = "new"
    /\ phase' = "schema"
    /\ UNCHANGED <<userVars, session, flashed, fleetVars, today, inflight>>

\* The migration keeps every user row; a row without a status becomes
\* 'approved'.
ensure_schema_updates ==
    /\ phase = "schema"
    /\ phase' = "updated"
    /\ users' = [id \in DOMAIN users |->
                    IF users[id].status \in {Null, ""}
                    THEN [users[id] EXCEPT !.status = STATUS_APPROVED]
                    ELSE users[id]]
    /\ UNCHANGED <<userSeq, session, flashed, fleetVars, today, inflight>>

\* INSERT OR IGNORE of the one default account.
seed_default_users ==
    /\ phase = "updated"
    /\ phase' = "ready"
    /\ IF \E id \in DOMAIN users : users[id].username = "manager"
       THEN UNCHANGED userVars
       ELSE /\ userSeq' = userSeq + 1
            /\ users' = (userSeq + 1 :> [username |-> "manager",
                                         name |-> Null,
                                         email |-> Null,
                                         password_hash |-> generate_password_hash("manager123"),
                                         role |-> "Manager",
                                         status |-> STATUS_APPROVED]) @@ users
    /\ UNCHANGED <<session, flashed, fleetVars, today, inflight>>

---------------------------------------------------------------------------
(* Access control *)

\* roles_required: "" when the view may run, otherwise how the request ends.
\* A request without a session is redirected to the login page and flashes
\* nothing.
GateNoSession == "redirect:login"
GateDenied == "You do not have permission to access this action."

\* roles_required that looks for a session only
roles_required_any_role(c, allowed_roles) ==
    IF session[c].user_id = 0 THEN GateNoSession ELSE ""

roles_required(c, allowed_roles) ==
    IF session[c].user_id = 0 THEN GateNoSession
    ELSE IF session[c].role \notin allowed_roles THEN GateDenied
    ELSE ""

\* login_required
login_required(c) ==
    IF session[c].user_id = 0 THEN GateNoSession ELSE ""

\* flash(message, category): the category is what the state keeps.
Success == "success"
Error == "error"

\* The messages flashed with category "success" by a request that changes
\* nothing.
Notices == {"Trip status unchanged."}

\* How a request that changes no table and no session ends.
Reject(msg) ==
    /\ flashed' = (IF msg = GateNoSession \/ msg = "" THEN ""
                   ELSE IF msg \in Notices THEN Success
                   ELSE Error)
    /\ UNCHANGED <<phase, userVars, session, fleetVars, today, inflight>>

\* flash(message, "success") of a request that went through.
Flash(msg) == flashed' = Success

---------------------------------------------------------------------------
(* Accounts *)

get_available_roles_for_registration(us) ==
    LET taken == {us[id].role : id \in {i \in DOMAIN us :
                        /\ us[i].role \in ASSIGNABLE_ROLES
                        /\ us[i].status \in {STATUS_PENDING, STATUS_APPROVED}}}
    IN  ASSIGNABLE_ROLES \ taken

\* The rows the login query returns for a name.
LoginRows(username) ==
    {id \in DOMAIN users :
        \/ Lower(users[id].username) = Lower(username)
        \/ (users[id].email # Null /\ Lower(users[id].email) = Lower(username))}

\* login without its checks of the user's status
login_any_status(c, username_field, password) ==
    LET username == Strip(username_field)
        rows == LoginRows(username)
    IN  /\ phase = "ready"
        /\ IF rows = {}
           THEN Reject("Invalid username or password.")
           ELSE \E id \in rows :
                LET user == users[id] IN
                IF ~check_password_hash(user.password_hash, password)
                THEN Reject("Invalid username or password.")
                ELSE /\ session' = [session EXCEPT ![c] =
                                        [user_id |-> id,
                                         username |-> user.username,
                                         role |-> user.role]]
                     /\ Flash("Logged in successfully.")
                     /\ UNCHANGED <<phase, userVars, fleetVars, today, inflight>>

login(c, username_field, password) ==
    LET username == Strip(username_field)
        rows == LoginRows(username)
    IN  /\ phase = "ready"
        /\ IF rows = {}
           THEN Reject("Invalid username or password.")
           ELSE \E id \in rows :
                LET user == users[id] IN
                IF ~check_password_hash(user.password_hash, password)
                THEN Reject("Invalid username or password.")
                ELSE IF user.status = STATUS_PENDING
                THEN Reject("Awaiting manager approval")
                ELSE IF user.status = STATUS_REJECTED
                THEN Reject("Access denied by manager")
                ELSE /\ session' = [session EXCEPT ![c] =
                                        [user_id |-> id,
                                         username |-> user.username,
                                         role |-> user.role]]
                     /\ Flash("Logged in successfully.")
                     /\ UNCHANGED <<phase, userVars, fleetVars, today, inflight>>

logout(c) ==
    /\ phase = "ready"
    /\ IF login_required(c) # ""
       THEN Reject(login_required(c))
       ELSE /\ session' = [session EXCEPT ![c] = NoSession]
            /\ Flash("Logged out.")
            /\ UNCHANGED <<phase, userVars, fleetVars, today, inflight>>

\* The INSERT of register and its commit.  The username column is UNIQUE:
\* a second row with the e-mail raises IntegrityError, which is rolled back.
InsertUser(email, name, password, role) ==
    IF \E id \in DOMAIN users : users[id].username = email
    THEN /\ flashed' = Error
         /\ UNCHANGED userVars
    ELSE /\ userSeq' = userSeq + 1
         /\ users' = (userSeq + 1 :> [username |-> email,
                                      name |-> name,
                                      email |-> email,
                                      password_hash |-> generate_password_hash(password),
                                      role |-> role,
                                      status |-> STATUS_PENDING]) @@ users
         /\ Flash("Request submitted")

\* What register decides from the roles it has read; "" when it goes on to
\* the INSERT.
RegisterError(available_roles, name, email, password, role) ==
    IF available_roles = {}
    THEN "All roles assigned"
    ELSE IF name = "" \/ email = "" \/ password = "" \/ role = ""
    THEN "All fields are required"
    ELSE IF role \notin available_roles
    THEN "Selected role is not available"
    ELSE ""

\* register, served with no other request in between.  The view is open to
\* every browser c: it has no decorator and never reads the session.
register(c, name_field, email_field, password, role_field) ==
    LET available_roles == get_available_roles_for_registration(users)
        name == Strip(name_field)
        email == Lower(Strip(email_field))
        role == Strip(role_field)
        error == RegisterError(available_roles, name, email, password, role)
    IN  /\ phase = "ready"
        /\ IF error # ""
           THEN Reject(error)
           ELSE /\ InsertUser(email, name, password, role)
                /\ UNCHANGED <<phase, session, fleetVars, today, inflight>>

\* approve_user without its checks of the row's status and of the role's holder
approve_user_unchecked(c, user_id) ==
    /\ phase = "ready"
    /\ IF roles_required(c, {"Manager"}) # ""
       THEN Reject(roles_required(c, {"Manager"}))
       ELSE IF user_id \notin DOMAIN users
       THEN Reject("Request not found")
       ELSE IF users[user_id].role = "Manager"
       THEN Reject("Cannot approve manager role")
       ELSE /\ users' = [users EXCEPT ![user_id].status = STATUS_APPROVED]
            /\ Flash("User approved")
            /\ UNCHANGED <<phase, userSeq, session, fleetVars, today, inflight>>

\* What approve_user decides from the rows it has read; "" when it goes on
\* to the UPDATE.
ApproveError(c, user_id) ==
    IF roles_required(c, {"Manager"}) # ""
    THEN roles_required(c, {"Manager"})
    ELSE IF user_id \notin DOMAIN users
    THEN "Request not found"
    ELSE IF users[user_id].role = "Manager"
    THEN "Cannot approve manager role"
    ELSE IF users[user_id].status # STATUS_PENDING
    THEN "Request is not pending"
    ELSE IF \E id \in DOMAIN users :
                /\ users[id].role = users[user_id].role
                /\ users[id].status \in {STATUS_PENDING, STATUS_APPROVED}
                /\ id # user_id
    THEN "Role already assigned"
    ELSE ""

\* UPDATE users SET status = 'approved' WHERE id = user_id, and its commit.
UpdateApproved(user_id) ==
    /\ users' = [id \in DOMAIN users |->
                    IF id = user_id
                    THEN [users[id] EXCEPT !.status = STATUS_APPROVED]
                    ELSE users[id]]
    /\ Flash("User approved")

\* approve_user, served with no other request in between.
approve_user(c, user_id) ==
    /\ phase = "ready"
    /\ IF ApproveError(c, user_id) # ""
       THEN Reject(ApproveError(c, user_id))
       ELSE /\ UpdateApproved(user_id)
            /\ UNCHANGED <<phase, userSeq, session, fleetVars, today, inflight>>

\* reject_user without the check that the row is pending
reject_user_any_status(c, user_id) ==
    /\ phase = "ready"
    /\ IF roles_required(c, {"Manager"}) # ""
       THEN Reject(roles_required(c, {"Manager"}))
       ELSE IF user_id \notin DOMAIN users
       THEN Reject("Request not found")
       ELSE IF users[user_id].role = "Manager"
       THEN Reject("Cannot reject manager role")
       ELSE /\ users' = [users EXCEPT ![user_id].status = STATUS_REJECTED]
            /\ Flash("User rejected")
            /\ UNCHANGED <<phase, userSeq, session, fleetVars, today, inflight>>

reject_user(c, user_id) ==
    /\ phase = "ready"
    /\ IF roles_required(c, {"Manager"}) # ""
       THEN Reject(roles_required(c, {"Manager"}))
       ELSE IF user_id \notin DOMAIN users
       THEN Reject("Request not found")
       ELSE IF users[user_id].role = "Manager"
       THEN Reject("Cannot reject manager role")
       ELSE IF users[user_id].status # STATUS_PENDING
       THEN Reject("Request is not pending")
       ELSE /\ users' = [users EXCEPT ![user_id].status = STATUS_REJECTED]
            /\ Flash("User rejected")
            /\ UNCHANGED <<phase, userSeq, session, fleetVars, today, inflight>>

delete_user(c, user_id) ==
    /\ phase = "ready"
    /\ IF roles_required(c, {"Manager"}) # ""
       THEN Reject(roles_required(c, {"Manager"}))
       ELSE IF session[c].user_id = user_id
       THEN Reject("Manager cannot delete self")
       ELSE IF user_id \notin DOMAIN users
       THEN Reject("User not found")
       ELSE IF users[user_id].role = "Manager"
       THEN Reject("Manager cannot be removed")
       ELSE /\ users' = [id \in DOMAIN users \ {user_id} |-> users[id]]
            /\ Flash("User removed")
            /\ UNCHANGED <<phase, userSeq, session, fleetVars, today, inflight>>

---------------------------------------------------------------------------
(* Form values *)

\* request.form.get(name, type=int / float): None when the field is absent
\* or does not parse, otherwise the number.
None == <<>>
Some(n) == <<n>>
Val(x) == x[1]

\* A date field: empty, text that is no date, or an ISO date (its day number).
EmptyDate == [kind |-> "empty", day |-> 0]
GarbageDate == [kind |-> "garbage", day |-> 0]
IsoDate(d) == [kind |-> "iso", day |-> d]

\* datetime.strptime(text, "%Y-%m-%d"): None stands for ValueError.
strptime(text) == IF text.kind = "iso" THEN Some(text.day) ELSE None

\* str.upper() of a licence plate or licence number
Upper(s) ==
    CASE s = "ab1" -> "AB1"
      [] s = "ef3" -> "EF3"
      [] s = "dl1" -> "DL1"
      [] s = "dl3" -> "DL3"
      [] OTHER -> s

\* is_license_expired with the comparison turned round
is_license_expired_reversed(expiry_date_text, day) ==
    IF expiry_date_text.kind = "empty" THEN TRUE
    ELSE Val(strptime(expiry_date_text)) > day

is_license_expired(expiry_date_text, day) ==
    IF expiry_date_text.kind = "empty" THEN TRUE
    ELSE Val(strptime(expiry_date_text)) < day

---------------------------------------------------------------------------
(* Vehicles *)

VehicleStatuses == {"Available", "On Trip", "In Shop"}
DriverStatuses == {"Available", "On Trip", "Suspended"}
TripStatuses == {"Draft", "Dispatched", "Completed", "Cancelled"}

\* The checks vehicles and edit_vehicle make on the form; "" when it passes.
VehicleFormError(f) ==
    IF Strip(f.model_name) = "" \/ Upper(Strip(f.license_plate)) = ""
    THEN "Model name and license plate are required."
    ELSE IF f.max_capacity_kg = None \/ Val(f.max_capacity_kg) <= 0
    THEN "Max capacity must be a positive number."
    ELSE IF f.odometer = None \/ Val(f.odometer) < 0
    THEN "Odometer must be zero or greater."
    ELSE IF Strip(f.status) \notin VehicleStatuses
    THEN "Invalid vehicle status."
    ELSE ""

VehicleRow(f) ==
    [model_name |-> Strip(f.model_name),
     license_plate |-> Upper(Strip(f.license_plate)),
     max_capacity_kg |-> Val(f.max_capacity_kg),
     odometer |-> Val(f.odometer),
     status |-> Strip(f.status)]

vehicles_post(c, f) ==
    /\ phase = "ready"
    /\ IF roles_required(c, {"Manager"}) # ""
       THEN Reject(roles_required(c, {"Manager"}))
       ELSE IF session[c].role # "Manager"
       THEN Reject("Only managers can create vehicles.")
       ELSE IF VehicleFormError(f) # ""
       THEN Reject(VehicleFormError(f))
       ELSE IF \E id \in DOMAIN vehicles :
                    vehicles[id].license_plate = VehicleRow(f).license_plate
       THEN Reject("License plate must be unique.")
       ELSE /\ vehicleSeq' = vehicleSeq + 1
            /\ vehicles' = (vehicleSeq + 1 :> VehicleRow(f)) @@ vehicles
            /\ Flash("Vehicle created.")
            /\ UNCHANGED <<phase, userVars, session, drivers, driverSeq, trips,
                           tripSeq, maintenance_logs, fuel_logs, today, inflight>>

edit_vehicle(c, vehicle_id, f) ==
    /\ phase = "ready"
    /\ IF roles_required(c, {"Manager"}) # ""
       THEN Reject(roles_required(c, {"Manager"}))
       ELSE IF vehicle_id \notin DOMAIN vehicles
       THEN Reject("Vehicle not found.")
       ELSE IF VehicleFormError(f) # ""
       THEN Reject(VehicleFormError(f))
       ELSE IF \E id \in DOMAIN vehicles \ {vehicle_id} :
                    vehicles[id].license_plate = VehicleRow(f).license_plate
       THEN Reject("License plate must be unique.")
       ELSE /\ vehicles' = [vehicles EXCEPT ![vehicle_id] = VehicleRow(f)]
            /\ Flash("Vehicle updated.")
            /\ UNCHANGED <<phase, userVars, session, vehicleSeq, drivers, driverSeq,
                           trips, tripSeq, maintenance_logs, fuel_logs, today, inflight>>

\* fuel_logs references vehicles ON DELETE RESTRICT (ensure_schema_updates);
\* the foreign key of maintenance_logs is declared in schema.sql and is taken
\* to be the same.  The DELETE raises IntegrityError, which the view does not
\* catch, and the connection rolls back (response 500, nothing flashed).
VehicleHasLogs(vehicle_id) ==
    \/ \E i \in DOMAIN maintenance_logs : maintenance_logs[i].vehicle_id = vehicle_id
    \/ \E i \in DOMAIN fuel_logs : fuel_logs[i].vehicle_id = vehicle_id

\* delete_vehicle without the look at the trips table
delete_vehicle_unchecked(c, vehicle_id) ==
    /\ phase = "ready"
    /\ IF roles_required(c, {"Manager"}) # ""
       THEN Reject(roles_required(c, {"Manager"}))
       ELSE IF VehicleHasLogs(vehicle_id)
       THEN Reject("")
       ELSE /\ vehicles' = [id \in DOMAIN vehicles \ {vehicle_id} |-> vehicles[id]]
            /\ Flash("Vehicle deleted.")
            /\ UNCHANGED <<phase, userVars, session, vehicleSeq, drivers, driverSeq,
                           trips, tripSeq, maintenance_logs, fuel_logs, today, inflight>>

delete_vehicle(c, vehicle_id) ==
    /\ phase = "ready"
    /\ IF roles_required(c, {"Manager"}) # ""
       THEN Reject(roles_required(c, {"Manager"}))
       ELSE IF \E t \in DOMAIN trips : trips[t].vehicle_id = vehicle_id
       THEN Reject("Vehicle cannot be deleted because it has trip records.")
       ELSE IF VehicleHasLogs(vehicle_id)
       THEN Reject("")
       ELSE /\ vehicles' = [id \in DOMAIN vehicles \ {vehicle_id} |-> vehicles[id]]
            /\ Flash("Vehicle deleted.")
            /\ UNCHANGED <<phase, userVars, session, vehicleSeq, drivers, driverSeq,
                           trips, tripSeq, maintenance_logs, fuel_logs, today, inflight>>

---------------------------------------------------------------------------
(* Drivers *)

\* The checks drivers and edit_driver make on the form; "" when it passes.
DriverFormError(f) ==
    IF Strip(f.name) = "" \/ Upper(Strip(f.license_number)) = ""
       \/ f.license_expiry_date.kind = "empty"
    THEN "All driver fields are required."
    ELSE IF Strip(f.status) \notin DriverStatuses
    THEN "Invalid driver status."
    ELSE IF strptime(f.license_expiry_date) = None
    THEN "Invalid license expiry date."
    ELSE ""

\* The safety_score column defaults to 75.
DefaultSafetyScore == 75

drivers_post(c, f) ==
    /\ phase = "ready"
    /\ IF roles_required(c, AllRoles) # ""
       THEN Reject(roles_required(c, AllRoles))
       ELSE IF session[c].role # "Manager"
       THEN Reject("Only managers can create drivers.")
       ELSE IF DriverFormError(f) # ""
       THEN Reject(DriverFormError(f))
       ELSE IF \E id \in DOMAIN drivers :
                    drivers[id].license_number = Upper(Strip(f.license_number))
       THEN Reject("License number must be unique.")
       ELSE /\ driverSeq' = driverSeq + 1
            /\ drivers' = (driverSeq + 1 :>
                              [name |-> Strip(f.name),
                               license_number |-> Upper(Strip(f.license_number)),
                               license_expiry_date |-> f.license_expiry_date,
                               status |-> Strip(f.status),
                               safety_score |-> DefaultSafetyScore]) @@ drivers
            /\ Flash("Driver created.")
            /\ UNCHANGED <<phase, userVars, session, vehicles, vehicleSeq, trips,
                           tripSeq, maintenance_logs, fuel_logs, today, inflight>>

edit_driver(c, driver_id, f) ==
    /\ phase = "ready"
    /\ IF roles_required(c, {"Manager"}) # ""
       THEN Reject(roles_required(c, {"Manager"}))
       ELSE IF driver_id \notin DOMAIN drivers
       THEN Reject("Driver not found.")
       ELSE IF DriverFormError(f) # ""
       THEN Reject(DriverFormError(f))
       ELSE IF \E id \in DOMAIN drivers \ {driver_id} :
                    drivers[id].license_number = Upper(Strip(f.license_number))
       THEN Reject("License number must be unique.")
       ELSE /\ drivers' = [drivers EXCEPT ![driver_id] =
                              [name |-> Strip(f.name),
                               license_number |-> Upper(Strip(f.license_number)),
                               license_expiry_date |-> f.license_expiry_date,
                               status |-> Strip(f.status),
                               safety_score |-> drivers[driver_id].safety_score]]
            /\ Flash("Driver updated.")
            /\ UNCHANGED <<phase, userVars, session, vehicles, vehicleSeq, driverSeq,
                           trips, tripSeq, maintenance_logs, fuel_logs, today, inflight>>

delete_driver(c, driver_id) ==
    /\ phase = "ready"
    /\ IF roles_required(c, {"Manager"}) # ""
       THEN Reject(roles_required(c, {"Manager"}))
       ELSE IF \E t \in DOMAIN trips : trips[t].driver_id = driver_id
       THEN Reject("Driver cannot be deleted because they have trip records.")
       ELSE /\ drivers' = [id \in DOMAIN drivers \ {driver_id} |-> drivers[id]]
            /\ Flash("Driver deleted.")
            /\ UNCHANGED <<phase, userVars, session, vehicles, vehicleSeq, driverSeq,
                           trips, tripSeq, maintenance_logs, fuel_logs, today, inflight>>

---------------------------------------------------------------------------
(* Trips *)

NoOldStatus == "None"

\* The cargo checks without the comparison with the vehicle's capacity
CargoError_no_limit(cargo_weight, vehicle) ==
    IF cargo_weight = None \/ Val(cargo_weight) <= 0
    THEN "Cargo weight must be a positive number."
    ELSE ""

\* The cargo checks of validate_trip_assignment
CargoError(cargo_weight, vehicle) ==
    IF cargo_weight = None \/ Val(cargo_weight) <= 0
    THEN "Cargo weight must be a positive number."
    ELSE IF Val(cargo_weight) > vehicle.max_capacity_kg
    THEN "Cargo weight exceeds vehicle maximum capacity."
    ELSE ""

\* The dispatch checks without the one of the vehicle's status
DispatchError_driver_only(status, old_status, vehicle, driver) ==
    IF /\ status = "Dispatched"
       /\ driver.status # "Available"
       /\ old_status # "Dispatched"
    THEN "Driver must be available to dispatch."
    ELSE ""

\* The checks validate_trip_assignment makes when the status asked for is
\* Dispatched
DispatchError(status, old_status, vehicle, driver) ==
    IF /\ status = "Dispatched"
       /\ vehicle.status # "Available"
       /\ old_status # "Dispatched"
    THEN "Vehicle must be available to dispatch."
    ELSE IF /\ status = "Dispatched"
            /\ driver.status # "Available"
            /\ old_status # "Dispatched"
    THEN "Driver must be available to dispatch."
    ELSE ""

\* validate_trip_assignment without the check of a vehicle in the shop
validate_trip_assignment_shop_open(vehicle_id, driver_id, cargo_weight, status, old_status) ==
    IF vehicle_id \notin DOMAIN vehicles \/ driver_id \notin DOMAIN drivers
    THEN "Vehicle or driver not found."
    ELSE IF CargoError(cargo_weight, vehicles[vehicle_id]) # ""
    THEN CargoError(cargo_weight, vehicles[vehicle_id])
    ELSE IF is_license_expired(drivers[driver_id].license_expiry_date, today)
    THEN "Driver license is expired and cannot be assigned."
    ELSE IF drivers[driver_id].status # "Available" /\ old_status # "Dispatched"
    THEN "Driver is not available for assignment."
    ELSE DispatchError(status, old_status, vehicles[vehicle_id], drivers[driver_id])

\* The error validate_trip_assignment returns; "" when it returns none.
validate_trip_assignment(vehicle_id, driver_id, cargo_weight, status, old_status) ==
    IF vehicle_id \notin DOMAIN vehicles \/ driver_id \notin DOMAIN drivers
    THEN "Vehicle or driver not found."
    ELSE IF CargoError(cargo_weight, vehicles[vehicle_id]) # ""
    THEN CargoError(cargo_weight, vehicles[vehicle_id])
    ELSE IF vehicles[vehicle_id].status = "In Shop"
    THEN "Vehicle in shop cannot be assigned to trip."
    ELSE IF is_license_expired(drivers[driver_id].license_expiry_date, today)
    THEN "Driver license is expired and cannot be assigned."
    ELSE IF drivers[driver_id].status # "Available" /\ old_status # "Dispatched"
    THEN "Driver is not available for assignment."
    ELSE DispatchError(status, old_status, vehicles[vehicle_id], drivers[driver_id])

\* The updates of vehicles and drivers that follow a trip's INSERT.
StatusAfterCreate(status, old) ==
    IF status = "Dispatched" THEN "On Trip"
    ELSE IF status \in {"Completed", "Cancelled"} THEN "Available"
    ELSE old

\* The updates after a status UPDATE with Draft left out of the second branch
StatusAfterUpdate_without_draft(new_status, old) ==
    IF new_status = "Dispatched" THEN "On Trip"
    ELSE IF new_status \in {"Completed", "Cancelled"} THEN "Available"
    ELSE old

\* The updates of vehicles and drivers that follow a trip's status UPDATE.
StatusAfterUpdate(new_status, old) ==
    IF new_status = "Dispatched" THEN "On Trip"
    ELSE IF new_status \in {"Completed", "Cancelled", "Draft"} THEN "Available"
    ELSE old

trips_post(c, f) ==
    /\ phase = "ready"
    /\ IF roles_required(c, {"Dispatcher"}) # ""
       THEN Reject(roles_required(c, {"Dispatcher"}))
       ELSE IF Strip(f.status) \notin TripStatuses
       THEN Reject("Invalid trip status.")
       ELSE IF \/ f.vehicle_id = None \/ f.vehicle_id = Some(0)
               \/ f.driver_id = None \/ f.driver_id = Some(0)
               \/ Strip(f.origin) = "" \/ Strip(f.destination) = ""
       THEN Reject("All trip fields are required.")
       ELSE LET vehicle_id == Val(f.vehicle_id)
                driver_id == Val(f.driver_id)
                status == Strip(f.status)
                error == validate_trip_assignment(vehicle_id, driver_id,
                                                  f.cargo_weight, status, NoOldStatus)
            IN  IF error # ""
                THEN Reject(error)
                ELSE /\ tripSeq' = tripSeq + 1
                     /\ trips' = (tripSeq + 1 :>
                                     [vehicle_id |-> vehicle_id,
                                      driver_id |-> driver_id,
                                      cargo_weight |-> Val(f.cargo_weight),
                                      origin |-> Strip(f.origin),
                                      destination |-> Strip(f.destination),
                                      status |-> status]) @@ trips
                     /\ vehicles' = [vehicles EXCEPT ![vehicle_id].status =
                                        StatusAfterCreate(status, @)]
                     /\ drivers' = [drivers EXCEPT ![driver_id].status =
                                        StatusAfterCreate(status, @)]
                     /\ Flash("Trip created.")
                     /\ UNCHANGED <<phase, userVars, session, vehicleSeq, driverSeq,
                                    maintenance_logs, fuel_logs, today, inflight>>

update_trip_status(c, trip_id, status_field) ==
    LET new_status == Strip(status_field) IN
    /\ phase = "ready"
    /\ IF roles_required(c, {"Dispatcher"}) # ""
       THEN Reject(roles_required(c, {"Dispatcher"}))
       ELSE IF new_status \notin TripStatuses
       THEN Reject("Invalid trip status.")
       ELSE IF trip_id \notin DOMAIN trips
       THEN Reject("Trip not found.")
       ELSE IF trips[trip_id].status = new_status
       THEN Reject("Trip status unchanged.")
       ELSE LET trip == trips[trip_id]
                error == validate_trip_assignment(trip.vehicle_id, trip.driver_id,
                                                  Some(trip.cargo_weight), new_status,
                                                  trip.status)
            IN  IF error # ""
                THEN Reject(error)
                ELSE /\ trips' = [trips EXCEPT ![trip_id].status = new_status]
                     /\ vehicles' = [vehicles EXCEPT ![trip.vehicle_id].status =
                                        StatusAfterUpdate(new_status, @)]
                     /\ drivers' = [drivers EXCEPT ![trip.driver_id].status =
                                        StatusAfterUpdate(new_status, @)]
                     /\ Flash("Trip status updated.")
                     /\ UNCHANGED <<phase, userVars, session, vehicleSeq, driverSeq,
                                    tripSeq, maintenance_logs, fuel_logs, today, inflight>>

delete_trip(c, trip_id) ==
    /\ phase = "ready"
    /\ IF roles_required(c, {"Dispatcher"}) # ""
       THEN Reject(roles_required(c, {"Dispatcher"}))
       ELSE Reject("Trip deletion is disabled by current role policy.")

---------------------------------------------------------------------------
(* Maintenance, safety and fuel *)

\* maintenance that inserts the log and leaves the vehicle as it is
maintenance_log_only(c, f) ==
    /\ phase = "ready"
    /\ IF roles_required(c, {"Manager"}) # ""
       THEN Reject(roles_required(c, {"Manager"}))
       ELSE IF \/ f.vehicle_id = None \/ f.vehicle_id = Some(0)
               \/ Strip(f.description) = "" \/ f.date.kind = "empty"
       THEN Reject("All maintenance fields are required.")
       ELSE IF f.cost = None \/ Val(f.cost) < 0
       THEN Reject("Cost must be zero or greater.")
       ELSE IF strptime(f.date) = None
       THEN Reject("Invalid maintenance date.")
       ELSE IF Val(f.vehicle_id) \notin DOMAIN vehicles
       THEN Reject("Vehicle not found.")
       ELSE /\ maintenance_logs' = Append(maintenance_logs,
                                       [vehicle_id |-> Val(f.vehicle_id),
                                        description |-> Strip(f.description),
                                        cost |-> Val(f.cost),
                                        date |-> f.date])
            /\ Flash("Maintenance log created. Vehicle moved to In Shop.")
            /\ UNCHANGED <<phase, userVars, session, vehicles, vehicleSeq, drivers, driverSeq,
                           trips, tripSeq, fuel_logs, today, inflight>>

maintenance(c, f) ==
    /\ phase = "ready"
    /\ IF roles_required(c, {"Manager"}) # ""
       THEN Reject(roles_required(c, {"Manager"}))
       ELSE IF \/ f.vehicle_id = None \/ f.vehicle_id = Some(0)
               \/ Strip(f.description) = "" \/ f.date.kind = "empty"
       THEN Reject("All maintenance fields are required.")
       ELSE IF f.cost = None \/ Val(f.cost) < 0
       THEN Reject("Cost must be zero or greater.")
       ELSE IF strptime(f.date) = None
       THEN Reject("Invalid maintenance date.")
       ELSE IF Val(f.vehicle_id) \notin DOMAIN vehicles
       THEN Reject("Vehicle not found.")
       ELSE /\ maintenance_logs' = Append(maintenance_logs,
                                       [vehicle_id |-> Val(f.vehicle_id),
                                        description |-> Strip(f.description),
                                        cost |-> Val(f.cost),
                                        date |-> f.date])
            /\ vehicles' = [vehicles EXCEPT ![Val(f.vehicle_id)].status = "In Shop"]
            /\ Flash("Maintenance log created. Vehicle moved to In Shop.")
            /\ UNCHANGED <<phase, userVars, session, vehicleSeq, drivers, driverSeq,
                           trips, tripSeq, fuel_logs, today, inflight>>

\* safety_update_driver without the check of a driver on a trip
safety_update_driver_unguarded(c, driver_id, safety_score, status_field) ==
    LET status == Strip(status_field) IN
    /\ phase = "ready"
    /\ IF roles_required(c, {"Safety Officer"}) # ""
       THEN Reject(roles_required(c, {"Safety Officer"}))
       ELSE IF safety_score = None \/ Val(safety_score) < 0 \/ Val(safety_score) > 100
       THEN Reject("Safety score must be between 0 and 100.")
       ELSE IF status \notin {"Available", "Suspended"}
       THEN Reject("Status must be Available or Suspended.")
       ELSE IF driver_id \notin DOMAIN drivers
       THEN Reject("Driver not found.")
       ELSE /\ drivers' = [drivers EXCEPT ![driver_id].safety_score = Val(safety_score),
                                          ![driver_id].status = status]
            /\ Flash("Driver compliance profile updated.")
            /\ UNCHANGED <<phase, userVars, session, vehicles, vehicleSeq, driverSeq,
                           trips, tripSeq, maintenance_logs, fuel_logs, today, inflight>>

safety_update_driver(c, driver_id, safety_score, status_field) ==
    LET status == Strip(status_field) IN
    /\ phase = "ready"
    /\ IF roles_required(c, {"Safety Officer"}) # ""
       THEN Reject(roles_required(c, {"Safety Officer"}))
       ELSE IF safety_score = None \/ Val(safety_score) < 0 \/ Val(safety_score) > 100
       THEN Reject("Safety score must be between 0 and 100.")
       ELSE IF status \notin {"Available", "Suspended"}
       THEN Reject("Status must be Available or Suspended.")
       ELSE IF driver_id \notin DOMAIN drivers
       THEN Reject("Driver not found.")
       ELSE IF drivers[driver_id].status = "On Trip" /\ status = "Suspended"
       THEN Reject("Cannot suspend a driver currently on trip.")
       ELSE /\ drivers' = [drivers EXCEPT ![driver_id].safety_score = Val(safety_score),
                                          ![driver_id].status = status]
            /\ Flash("Driver compliance profile updated.")
            /\ UNCHANGED <<phase, userVars, session, vehicles, vehicleSeq, driverSeq,
                           trips, tripSeq, maintenance_logs, fuel_logs, today, inflight>>

financial_dashboard_post(c, f) ==
    /\ phase = "ready"
    /\ IF roles_required(c, {"Financial Analyst"}) # ""
       THEN Reject(roles_required(c, {"Financial Analyst"}))
       ELSE IF \/ f.vehicle_id = None \/ f.vehicle_id = Some(0)
               \/ f.liters = None \/ f.cost = None \/ f.date.kind = "empty"
       THEN Reject("All fuel log fields are required.")
       ELSE IF Val(f.liters) <= 0
       THEN Reject("Fuel liters must be greater than zero.")
       ELSE IF Val(f.cost) < 0
       THEN Reject("Fuel cost must be zero or greater.")
       ELSE IF strptime(f.date) = None
       THEN Reject("Invalid fuel log date.")
       ELSE IF Val(f.vehicle_id) \notin DOMAIN vehicles
       THEN Reject("Vehicle not found.")
       ELSE /\ fuel_logs' = Append(fuel_logs,
                                [vehicle_id |-> Val(f.vehicle_id),
                                 liters |-> Val(f.liters),
                                 cost |-> Val(f.cost),
                                 date |-> f.date])
            /\ Flash("Fuel log added.")
            /\ UNCHANGED <<phase, userVars, session, vehicles, vehicleSeq, drivers,
                           driverSeq, trips, tripSeq, maintenance_logs, today, inflight>>

\* The calendar day passes.
Midnight ==
    /\ phase = "ready"
    /\ today' = today + 1
    /\ UNCHANGED <<phase, userVars, session, flashed, fleetVars, inflight>>

---------------------------------------------------------------------------
(* The form fields a browser may send *)

NameFields == {"", "N"}
EmailFields == {"", "a@x", "A@X", "b@x"}
RegisterPasswords == {"", "pw"}
LoginPasswords == {"pw", "manager123"}
RoleFields == {"", "Manager"} \cup ASSIGNABLE_ROLES
LoginFields == {"manager", "MANAGER", "a@x", "A@X", "b@x"}
UserIds == 1..(MaxUsers + 1)

Boot ==
    \/ initialize_database
    \/ ensure_schema_updates
    \/ seed_default_users

Register ==
    /\ userSeq < MaxUsers
    /\ \E c \in Browsers, n \in NameFields, e \in EmailFields, p \in RegisterPasswords,
          r \in RoleFields : register(c, n, e, p, r)

Login == \E c \in Browsers, u \in LoginFields, p \in LoginPasswords : login(c, u, p)

Logout == \E c \in Browsers : logout(c)

ApproveUser == \E c \in Browsers, id \in UserIds : approve_user(c, id)

RejectUser == \E c \in Browsers, id \in UserIds : reject_user(c, id)

DeleteUser == \E c \in Browsers, id \in UserIds : delete_user(c, id)

Next ==
    \/ Boot
    \/ Register
    \/ Login
    \/ Logout
    \/ ApproveUser
    \/ RejectUser
    \/ DeleteUser

Spec == Init /\ [][Next]_vars

---------------------------------------------------------------------------
(* Claims about the accounts, checked under Spec *)

Holders(role, statuses) ==
    {id \in DOMAIN users : users[id].role = role /\ users[id].status \in statuses}

\* C1: after any sequence of register, approve_user, reject_user and
\* delete_user, each of the roles Dispatcher, Safety Officer and Financial
\* Analyst has at most one user whose status is 'approved'.
C1_OneApprovedPerRole ==
    \A role \in ASSIGNABLE_ROLES : Cardinality(Holders(role, {STATUS_APPROVED})) <= 1

\* A role is held by an approved user after an earlier request for the same
\* role was rejected.
C1_Witness ==
    \E role \in ASSIGNABLE_ROLES :
        /\ Holders(role, {STATUS_APPROVED}) # {}
        /\ Holders(role, {STATUS_REJECTED}) # {}

\* The session cookie login sets for user row id.
SessionOf(id) ==
    [user_id |-> id, username |-> users[id].username, role |-> users[id].role]

\* C2: a user created by register starts 'pending'; login sets a session
\* (user_id, username, role) only for a user whose password matches and whose
\* status is 'approved' at that moment; no session belongs to a user who is
\* pending or rejected.
C2_PendingUntilApproved ==
    [][/\ phase = "ready" =>
            \A id \in DOMAIN users' \ DOMAIN users : users'[id].status = STATUS_PENDING
       /\ \A c \in DOMAIN session :
            (session'[c] # session[c] /\ session'[c] # NoSession) =>
                /\ session'[c].user_id \in DOMAIN users
                /\ users[session'[c].user_id].status = STATUS_APPROVED
                /\ session'[c] = SessionOf(session'[c].user_id)
       /\ \A c \in Browsers, u \in LoginFields, p \in LoginPasswords :
            (login(c, u, p) /\ session'[c] # session[c]) =>
                users[session'[c].user_id].password_hash = <<"hash", p>>
       /\ \A c \in DOMAIN session :
            session'[c].user_id \in DOMAIN users' =>
                users'[session'[c].user_id].status = STATUS_APPROVED
      ]_vars

\* A registered user has been approved and has logged in while another
\* registered user is still pending.
C2_Witness ==
    /\ \E c \in DOMAIN session :
            /\ session[c].user_id \in DOMAIN users
            /\ session[c].role \in ASSIGNABLE_ROLES
    /\ \E id \in DOMAIN users : users[id].status = STATUS_PENDING

\* The accounts init_db.py announces, with their passwords.
AnnouncedAccounts ==
    {<<"manager", "manager123">>, <<"dispatcher", "dispatcher123">>,
     <<"safety", "safety123">>, <<"finance", "finance123">>}

\* C8: once initialize_database, ensure_schema_updates and seed_default_users
\* have run, the users table holds the accounts manager, dispatcher, safety and
\* finance, each 'approved' and with the announced password.
C8_DefaultAccounts ==
    phase = "ready" =>
        \A a \in AnnouncedAccounts :
            \E id \in DOMAIN users :
                /\ users[id].username = a[1]
                /\ users[id].status = STATUS_APPROVED
                /\ check_password_hash(users[id].password_hash, a[2])

---------------------------------------------------------------------------
(* Requests served concurrently.  Every request has a database connection  *)
(* of its own; its SELECTs run outside a transaction, and the transaction  *)
(* that the INSERT or UPDATE opens is committed right after it.  A worker  *)
(* is between the reads and the write of the request it serves.            *)

\* register up to its INSERT: the available roles are read here.
register_read(w, name_field, email_field, password, role_field) ==
    LET available_roles == get_available_roles_for_registration(users)
        name == Strip(name_field)
        email == Lower(Strip(email_field))
        role == Strip(role_field)
        error == RegisterError(available_roles, name, email, password, role)
    IN  /\ phase = "ready"
        /\ inflight[w] = Idle
        /\ IF error # ""
           THEN Reject(error)
           ELSE /\ inflight' = [inflight EXCEPT ![w] =
                                   [op |-> "register", email |-> email, name |-> name,
                                    password |-> password, role |-> role]]
                /\ UNCHANGED <<phase, userVars, session, flashed, fleetVars, today>>

\* register's INSERT and commit.
register_write(w) ==
    /\ inflight[w].op = "register"
    /\ InsertUser(inflight[w].email, inflight[w].name, inflight[w].password,
                  inflight[w].role)
    /\ inflight' = [inflight EXCEPT ![w] = Idle]
    /\ UNCHANGED <<phase, session, fleetVars, today>>

\* approve_user up to its UPDATE: the row and the conflict are read here.
approve_read(w, c, user_id) ==
    /\ phase = "ready"
    /\ inflight[w] = Idle
    /\ IF ApproveError(c, user_id) # ""
       THEN Reject(ApproveError(c, user_id))
       ELSE /\ inflight' = [inflight EXCEPT ![w] = [op |-> "approve", user_id |-> user_id]]
            /\ UNCHANGED <<phase, userVars, session, flashed, fleetVars, today>>

\* approve_user's UPDATE and commit.
approve_write(w) ==
    /\ inflight[w].op = "approve"
    /\ UpdateApproved(inflight[w].user_id)
    /\ inflight' = [inflight EXCEPT ![w] = Idle]
    /\ UNCHANGED <<phase, userSeq, session, fleetVars, today>>

RegisterRead ==
    /\ userSeq + Cardinality({w \in Workers : inflight[w].op = "register"}) < MaxUsers
    /\ \E w \in Workers, n \in NameFields, e \in EmailFields, p \in RegisterPasswords,
          r \in RoleFields : register_read(w, n, e, p, r)

RegisterWrite == \E w \in Workers : register_write(w)

ApproveRead == \E w \in Workers, c \in Browsers, id \in UserIds : approve_read(w, c, id)

ApproveWrite == \E w \in Workers : approve_write(w)

NextRace ==
    \/ Boot
    \/ Login
    \/ RegisterRead
    \/ RegisterWrite
    \/ ApproveRead
    \/ ApproveWrite

SpecRace == Init /\ [][NextRace]_vars

\* C9: with register and approve_user requests interleaved, no role among
\* Dispatcher, Safety Officer and Financial Analyst ever has more than one
\* user whose status is 'pending' or 'approved'.
C9_OneOccupantPerRole ==
    \A role \in ASSIGNABLE_ROLES :
        Cardinality(Holders(role, {STATUS_PENDING, STATUS_APPROVED})) <= 1

---------------------------------------------------------------------------
(* The staffed deployment: the manager has approved one user per role and  *)
(* every one of them has logged in from a browser of their own.            *)

StaffRole(c) ==
    CASE c = 2 -> "Manager"
      [] c = 3 -> "Dispatcher"
      [] c = 4 -> "Safety Officer"
      [] c = 5 -> "Financial Analyst"
      [] OTHER -> ""

StaffName(id) ==
    CASE id = 1 -> "manager"
      [] id = 2 -> "a@x"
      [] id = 3 -> "b@x"
      [] OTHER -> "c@x"

StaffUsers ==
    [id \in 1..4 |->
        IF id = 1
        THEN [username |-> "manager", name |-> Null, email |-> Null,
              password_hash |-> generate_password_hash("manager123"),
              role |-> "Manager", status |-> STATUS_APPROVED]
        ELSE [username |-> StaffName(id), name |-> "N", email |-> StaffName(id),
              password_hash |-> generate_password_hash("pw"),
              role |-> StaffRole(id + 1), status |-> STATUS_APPROVED]]

InitStaffed ==
    /\ phase = "ready"
    /\ users = StaffUsers
    /\ userSeq = 4
    /\ session = [c \in StaffClients |->
                    IF c = 1 THEN NoSession
                    ELSE [user_id |-> c - 1, username |-> StaffName(c - 1),
                          role |-> StaffRole(c)]]
    /\ flashed = ""
    /\ vehicles = EmptyTable
    /\ vehicleSeq = 0
    /\ drivers = EmptyTable
    /\ driverSeq = 0
    /\ trips = EmptyTable
    /\ tripSeq = 0
    /\ maintenance_logs = <<>>
    /\ fuel_logs = <<>>
    /\ today = 1
    /\ inflight = [w \in Workers |-> Idle]

\* The forms a browser sends: every well-formed form over the small field
\* values below, and one form for each way a field can be missing or
\* malformed.
\* As many licence plates and licence numbers as the tables may hold rows.
PlateText(i) == IF i = 1 THEN "ab1" ELSE IF i = 2 THEN "CD2" ELSE "ef3"
PlateFields == {PlateText(i) : i \in 1..MaxVehicles}
LicenseText(i) == IF i = 1 THEN "dl1" ELSE IF i = 2 THEN "DL2" ELSE "dl3"
LicenseFields == {LicenseText(i) : i \in 1..MaxDrivers}

\* A browser fills in the forms of its own role's screens in every way
\* listed; on any other screen it sends the one plain form.
FormsOf(c, role, forms, plain) == IF session[c].role = role THEN forms ELSE {plain}

VehicleBase ==
    [model_name |-> "Van", license_plate |-> "ab1", max_capacity_kg |-> Some(1),
     odometer |-> Some(0), status |-> "Available"]

VehicleForms ==
    {[VehicleBase EXCEPT !.license_plate = p, !.max_capacity_kg = Some(k), !.status = st] :
        p \in PlateFields, k \in 1..2, st \in VehicleStatuses}
    \cup {[VehicleBase EXCEPT !.model_name = " "],
          [VehicleBase EXCEPT !.license_plate = ""],
          [VehicleBase EXCEPT !.max_capacity_kg = None],
          [VehicleBase EXCEPT !.max_capacity_kg = Some(0)],
          [VehicleBase EXCEPT !.odometer = None],
          [VehicleBase EXCEPT !.odometer = Some(-1)],
          [VehicleBase EXCEPT !.status = "Scrapped"]}

DriverBase ==
    [name |-> "Ann", license_number |-> "dl1", license_expiry_date |-> IsoDate(1),
     status |-> "Available"]

DriverForms ==
    {[DriverBase EXCEPT !.license_number = n, !.license_expiry_date = IsoDate(d),
                        !.status = st] :
        n \in LicenseFields, d \in 1..MaxDay, st \in DriverStatuses}
    \cup {[DriverBase EXCEPT !.name = ""],
          [DriverBase EXCEPT !.license_number = " "],
          [DriverBase EXCEPT !.license_expiry_date = EmptyDate],
          [DriverBase EXCEPT !.license_expiry_date = GarbageDate],
          [DriverBase EXCEPT !.status = "Retired"]}

TripBase ==
    [vehicle_id |-> Some(1), driver_id |-> Some(1), cargo_weight |-> Some(1),
     origin |-> "Depot", destination |-> "Port", status |-> "Draft"]

TripForms ==
    {[TripBase EXCEPT !.vehicle_id = Some(v), !.driver_id = Some(d),
                      !.cargo_weight = Some(w), !.status = st] :
        v \in 1..(MaxVehicles + 1), d \in 1..(MaxDrivers + 1), w \in 0..2,
        st \in TripStatuses}
    \cup {[TripBase EXCEPT !.vehicle_id = None],
          [TripBase EXCEPT !.vehicle_id = Some(0)],
          [TripBase EXCEPT !.driver_id = None],
          [TripBase EXCEPT !.cargo_weight = None],
          [TripBase EXCEPT !.origin = " "],
          [TripBase EXCEPT !.destination = ""],
          [TripBase EXCEPT !.status = "Lost"]}

MaintenanceBase ==
    [vehicle_id |-> Some(1), description |-> "Oil", cost |-> Some(0),
     date |-> IsoDate(1)]

MaintenanceForms ==
    {[MaintenanceBase EXCEPT !.vehicle_id = Some(v)] : v \in 1..(MaxVehicles + 1)}
    \cup {[MaintenanceBase EXCEPT !.vehicle_id = None],
          [MaintenanceBase EXCEPT !.vehicle_id = Some(0)],
          [MaintenanceBase EXCEPT !.description = " "],
          [MaintenanceBase EXCEPT !.cost = None],
          [MaintenanceBase EXCEPT !.cost = Some(-1)],
          [MaintenanceBase EXCEPT !.date = EmptyDate],
          [MaintenanceBase EXCEPT !.date = GarbageDate]}

FuelBase ==
    [vehicle_id |-> Some(1), liters |-> Some(1), cost |-> Some(0),
     date |-> IsoDate(1)]

FuelForms ==
    {[FuelBase EXCEPT !.vehicle_id = Some(v)] : v \in 1..(MaxVehicles + 1)}
    \cup {[FuelBase EXCEPT !.vehicle_id = None],
          [FuelBase EXCEPT !.liters = None],
          [FuelBase EXCEPT !.liters = Some(0)],
          [FuelBase EXCEPT !.cost = None],
          [FuelBase EXCEPT !.cost = Some(-1)],
          [FuelBase EXCEPT !.date = EmptyDate],
          [FuelBase EXCEPT !.date = GarbageDate]}

SafetyBase == [safety_score |-> Some(50), status |-> "Available"]

SafetyForms ==
    {[SafetyBase EXCEPT !.status = st] : st \in {"Available", "Suspended"}}
    \cup {[SafetyBase EXCEPT !.safety_score = None],
          [SafetyBase EXCEPT !.safety_score = Some(-1)],
          [SafetyBase EXCEPT !.safety_score = Some(101)],
          [SafetyBase EXCEPT !.status = "On Trip"]}

VehicleIds == 1..(MaxVehicles + 1)
DriverIds == 1..(MaxDrivers + 1)
TripIds == 1..(MaxTrips + 1)

CreateVehicle ==
    /\ vehicleSeq < MaxVehicles
    /\ \E c \in StaffClients : \E f \in FormsOf(c, "Manager", VehicleForms, VehicleBase) :
            vehicles_post(c, f)

EditVehicle ==
    \E c \in StaffClients, id \in VehicleIds :
        \E f \in FormsOf(c, "Manager", VehicleForms, VehicleBase) : edit_vehicle(c, id, f)

DeleteVehicle == \E c \in StaffClients, id \in VehicleIds : delete_vehicle(c, id)

CreateDriver ==
    /\ driverSeq < MaxDrivers
    /\ \E c \in StaffClients : \E f \in FormsOf(c, "Manager", DriverForms, DriverBase) :
            drivers_post(c, f)

EditDriver ==
    \E c \in StaffClients, id \in DriverIds :
        \E f \in FormsOf(c, "Manager", DriverForms, DriverBase) : edit_driver(c, id, f)

DeleteDriver == \E c \in StaffClients, id \in DriverIds : delete_driver(c, id)

CreateTrip ==
    /\ tripSeq < MaxTrips
    /\ \E c \in StaffClients : \E f \in FormsOf(c, "Dispatcher", TripForms, TripBase) :
            trips_post(c, f)

UpdateTripStatus ==
    \E c \in StaffClients, id \in TripIds :
        \E st \in FormsOf(c, "Dispatcher", TripStatuses \cup {"Lost"}, "Draft") :
            update_trip_status(c, id, st)

DeleteTrip == \E c \in StaffClients, id \in TripIds : delete_trip(c, id)

Maintenance ==
    /\ Len(maintenance_logs) < MaxLogs
    /\ \E c \in StaffClients : \E f \in FormsOf(c, "Manager", MaintenanceForms, MaintenanceBase) :
            maintenance(c, f)

SafetyUpdateDriver ==
    \E c \in StaffClients, id \in DriverIds :
        \E f \in FormsOf(c, "Safety Officer", SafetyForms, SafetyBase) :
            safety_update_driver(c, id, f.safety_score, f.status)

AddFuelLog ==
    /\ Len(fuel_logs) < MaxLogs
    /\ \E c \in StaffClients : \E f \in FormsOf(c, "Financial Analyst", FuelForms, FuelBase) :
            financial_dashboard_post(c, f)

NextDay ==
    /\ today < MaxDay
    /\ Midnight

NextFleet ==
    \/ CreateVehicle
    \/ EditVehicle
    \/ DeleteVehicle
    \/ CreateDriver
    \/ EditDriver
    \/ DeleteDriver
    \/ CreateTrip
    \/ UpdateTripStatus
    \/ DeleteTrip
    \/ Maintenance
    \/ SafetyUpdateDriver
    \/ AddFuelLog
    \/ NextDay

SpecFleet == InitStaffed /\ [][NextFleet]_vars

---------------------------------------------------------------------------
(* Claims about trips, checked under SpecFleet *)

\* Trip t is created by the step, or the step changes its status.
TripTouched(t) ==
    /\ t \in DOMAIN trips'
    /\ (t \in DOMAIN trips => trips'[t].status # trips[t].status)

TripCreated(t) == t \in DOMAIN trips' /\ t \notin DOMAIN trips

\* A request that flashes an error leaves trips, vehicles and drivers as
\* they were.
RejectedKeepsFleet == (flashed' = Error) => UNCHANGED <<trips, vehicles, drivers>>

\* C4: right after a trip is created as or changed to Dispatched its vehicle
\* and driver are 'On Trip'; right after it is changed to Completed,
\* Cancelled or Draft, or created as Completed or Cancelled, both are
\* 'Available'; a trip's status is always one of the four.
C4_StatusDrivesFlags ==
    [][\A t \in DOMAIN trips' :
        LET trip == trips'[t]
            vehicle == vehicles'[trip.vehicle_id]
            driver == drivers'[trip.driver_id]
        IN  /\ trip.status \in {"Draft", "Dispatched", "Completed", "Cancelled"}
            /\ (TripTouched(t) /\ trip.status = "Dispatched") =>
                    (vehicle.status = "On Trip" /\ driver.status = "On Trip")
            /\ (/\ TripTouched(t)
                /\ \/ trip.status \in {"Completed", "Cancelled"}
                   \/ (trip.status = "Draft" /\ ~TripCreated(t))) =>
                    (vehicle.status = "Available" /\ driver.status = "Available")
      ]_vars

\* A trip that left Dispatched for Completed, with its vehicle and driver
\* released.
C4_Witness ==
    \E t \in DOMAIN trips :
        /\ trips[t].status = "Completed"
        /\ vehicles[trips[t].vehicle_id].status = "Available"
        /\ drivers[trips[t].driver_id].status = "Available"
        /\ flashed = Success

\* C5: a trip is created as Dispatched, or moved to Dispatched, only when
\* its vehicle and its driver are both 'Available' at that moment; the
\* rejected request changes no trip, vehicle or driver.
C5_DispatchNeedsAvailable ==
    [][/\ \A t \in DOMAIN trips' :
            (TripTouched(t) /\ trips'[t].status = "Dispatched") =>
                /\ trips'[t].vehicle_id \in DOMAIN vehicles
                /\ trips'[t].driver_id \in DOMAIN drivers
                /\ vehicles[trips'[t].vehicle_id].status = "Available"
                /\ drivers[trips'[t].driver_id].status = "Available"
       /\ RejectedKeepsFleet
      ]_vars

\* A Draft trip whose vehicle is not 'Available', after a request was turned
\* away.
C5_Witness ==
    \E t \in DOMAIN trips :
        /\ trips[t].status = "Draft"
        /\ vehicles[trips[t].vehicle_id].status = "On Trip"
        /\ drivers[trips[t].driver_id].status = "Available"
        /\ flashed = Error

\* C6: no trip is created and no trip's status is changed when its cargo
\* weight is not positive or exceeds the capacity its vehicle has at that
\* moment; the rejected request changes no trip, vehicle or driver.
C6_CapacityLimit ==
    [][/\ \A t \in DOMAIN trips' :
            TripTouched(t) =>
                /\ trips'[t].vehicle_id \in DOMAIN vehicles
                /\ trips'[t].cargo_weight > 0
                /\ trips'[t].cargo_weight <= vehicles[trips'[t].vehicle_id].max_capacity_kg
       /\ RejectedKeepsFleet
      ]_vars

\* A stored trip weighs more than its vehicle now carries (the capacity was
\* lowered after the trip was created), after a request was turned away.
C6_Witness ==
    \E t \in DOMAIN trips :
        /\ trips[t].cargo_weight > vehicles[trips[t].vehicle_id].max_capacity_kg
        /\ flashed = Error

\* The licence whose expiry date is text is missing or ran out before day.
LicenceLapsed(text, day) == text.kind # "iso" \/ text.day < day

\* C7: no trip is created with, and no trip's status is changed for, a driver
\* whose licence expiry date is missing or earlier than today, Dispatched to
\* Completed or Cancelled included; the rejected request changes no trip,
\* vehicle or driver.
C7_LicenseExpiry ==
    [][/\ \A t \in DOMAIN trips' :
            TripTouched(t) =>
                /\ trips'[t].driver_id \in DOMAIN drivers
                /\ ~LicenceLapsed(drivers[trips'[t].driver_id].license_expiry_date, today)
       /\ is_license_expired(EmptyDate, today)
       /\ RejectedKeepsFleet
      ]_vars

\* A Dispatched trip whose driver's licence has run out, after a request was
\* turned away.
C7_Witness ==
    \E t \in DOMAIN trips :
        /\ trips[t].status = "Dispatched"
        /\ LicenceLapsed(drivers[trips[t].driver_id].license_expiry_date, today)
        /\ flashed = Error

\* C10: in every reachable state the vehicle and the driver of every
\* Dispatched trip are 'On Trip'.
C10_DispatchedMeansOnTrip ==
    \A t \in DOMAIN trips :
        trips[t].status = "Dispatched" =>
            /\ vehicles[trips[t].vehicle_id].status = "On Trip"
            /\ drivers[trips[t].driver_id].status = "On Trip"

---------------------------------------------------------------------------
(* Every view, called from every browser of the staffed deployment.  The   *)
(* account views and the fleet views share no table, so a behaviour works  *)
(* on one of the two halves: this keeps every step of every view while the *)
(* states of the halves add up instead of multiplying.                     *)

FleetEmpty ==
    /\ vehicleSeq = 0 /\ driverSeq = 0 /\ tripSeq = 0
    /\ maintenance_logs = <<>> /\ fuel_logs = <<>>
    /\ today = 1

StaffUserIds == 1..(4 + MaxHires + 1)

RegisterBase == [name |-> "N", email |-> "a@x", password |-> "pw", role |-> "Dispatcher"]

\* The complete forms, and the forms with one field left blank or with the
\* role no form offers.
RegisterForms ==
    {[RegisterBase EXCEPT !.email = e, !.role = r] :
        e \in EmailFields \ {""}, r \in ASSIGNABLE_ROLES}
    \cup {[RegisterBase EXCEPT !.name = ""], [RegisterBase EXCEPT !.email = ""],
          [RegisterBase EXCEPT !.password = ""], [RegisterBase EXCEPT !.role = ""],
          [RegisterBase EXCEPT !.role = "Manager"]}

StaffRegister ==
    /\ userSeq < 4 + MaxHires
    /\ \E c \in StaffClients, f \in RegisterForms :
            register(c, f.name, f.email, f.password, f.role)

StaffApproveUser == \E c \in StaffClients, id \in StaffUserIds : approve_user(c, id)

StaffRejectUser == \E c \in StaffClients, id \in StaffUserIds : reject_user(c, id)

StaffDeleteUser == \E c \in StaffClients, id \in StaffUserIds : delete_user(c, id)

StaffKept == users = StaffUsers

NextGate ==
    \/ (StaffKept /\ CreateVehicle)
    \/ (StaffKept /\ EditVehicle)
    \/ (StaffKept /\ DeleteVehicle)
    \/ (StaffKept /\ CreateDriver)
    \/ (StaffKept /\ EditDriver)
    \/ (StaffKept /\ DeleteDriver)
    \/ (StaffKept /\ CreateTrip)
    \/ (StaffKept /\ UpdateTripStatus)
    \/ (StaffKept /\ DeleteTrip)
    \/ (StaffKept /\ Maintenance)
    \/ (StaffKept /\ SafetyUpdateDriver)
    \/ (StaffKept /\ AddFuelLog)
    \/ (StaffKept /\ NextDay)
    \/ (FleetEmpty /\ StaffRegister)
    \/ (FleetEmpty /\ StaffApproveUser)
    \/ (FleetEmpty /\ StaffRejectUser)
    \/ (FleetEmpty /\ StaffDeleteUser)

SpecGate == InitStaffed /\ [][NextGate]_vars

Tables == <<users, vehicles, drivers, trips, maintenance_logs, fuel_logs>>

\* The step is a request of browser c to a view the claim reserves for the
\* Manager: vehicles, drivers, maintenance logs, users.
ManagerRequest(c) ==
    \/ \E f \in FormsOf(c, "Manager", VehicleForms, VehicleBase) : vehicles_post(c, f)
    \/ \E id \in VehicleIds :
        \E f \in FormsOf(c, "Manager", VehicleForms, VehicleBase) : edit_vehicle(c, id, f)
    \/ \E id \in VehicleIds : delete_vehicle(c, id)
    \/ \E f \in FormsOf(c, "Manager", DriverForms, DriverBase) : drivers_post(c, f)
    \/ \E id \in DriverIds :
        \E f \in FormsOf(c, "Manager", DriverForms, DriverBase) : edit_driver(c, id, f)
    \/ \E id \in DriverIds : delete_driver(c, id)
    \/ \E f \in FormsOf(c, "Manager", MaintenanceForms, MaintenanceBase) : maintenance(c, f)
    \/ \E id \in StaffUserIds : approve_user(c, id)
    \/ \E id \in StaffUserIds : reject_user(c, id)
    \/ \E id \in StaffUserIds : delete_user(c, id)

RegisterRequest(c) ==
    \E f \in RegisterForms : register(c, f.name, f.email, f.password, f.role)

DispatcherRequest(c) ==
    \/ \E f \in FormsOf(c, "Dispatcher", TripForms, TripBase) : trips_post(c, f)
    \/ \E id \in TripIds :
        \E st \in FormsOf(c, "Dispatcher", TripStatuses \cup {"Lost"}, "Draft") :
            update_trip_status(c, id, st)
    \/ \E id \in TripIds : delete_trip(c, id)

SafetyRequest(c) ==
    \E id \in DriverIds :
        \E f \in FormsOf(c, "Safety Officer", SafetyForms, SafetyBase) :
            safety_update_driver(c, id, f.safety_score, f.status)

FuelRequest(c) ==
    \E f \in FormsOf(c, "Financial Analyst", FuelForms, FuelBase) :
        financial_dashboard_post(c, f)

\* The part of the gating that register does not touch: a request that
\* changes a table came from a browser whose session has the view's role.
\* (each line reads "the request is of this kind only if the role is ...",
\* written with the role first)
GatedViews(c) ==
    /\ session[c].role = "Manager" \/ ~ManagerRequest(c)
    /\ session[c].role = "Dispatcher" \/ ~DispatcherRequest(c)
    /\ session[c].role = "Safety Officer" \/ ~SafetyRequest(c)
    /\ session[c].role = "Financial Analyst" \/ ~FuelRequest(c)

\* C3 as stated: a request changes a table only with the session role of its
\* view, where users, like vehicles, drivers and maintenance logs, are
\* created only with session role Manager; with no session or another role
\* every table is left unchanged.
C3_RoleGating ==
    [][Tables' # Tables =>
        \A c \in StaffClients :
            /\ GatedViews(c)
            /\ session[c].role = "Manager" \/ ~RegisterRequest(c)
      ]_vars

\* C3 as amended: the same for every view but register; register, from any
\* browser, adds one user row with status 'pending' and an assignable role
\* and changes nothing else.
C3_RoleGatingButRegister ==
    [][Tables' # Tables =>
        \A c \in StaffClients :
            /\ GatedViews(c)
            /\ RegisterRequest(c) =>
                /\ UNCHANGED <<vehicles, drivers, trips, maintenance_logs, fuel_logs>>
                /\ DOMAIN users' = DOMAIN users \cup {userSeq + 1}
                /\ userSeq + 1 \notin DOMAIN users
                /\ \A id \in DOMAIN users : users'[id] = users[id]
                /\ users'[userSeq + 1].status = STATUS_PENDING
                /\ users'[userSeq + 1].role \in ASSIGNABLE_ROLES
      ]_vars

\* Every role has changed a table of its own and a request was turned away.
C3_Witness ==
    /\ DOMAIN vehicles # {}
    /\ DOMAIN trips # {}
    /\ \E d \in DOMAIN drivers : drivers[d].safety_score # DefaultSafetyScore
    /\ fuel_logs # <<>>
    /\ flashed = Error

---------------------------------------------------------------------------
(* The Dispatcher alone: the Manager has entered the vehicles and drivers  *)
(* of the yard, no trip exists yet, and from then on only the Dispatcher's *)
(* browser sends requests (trips and update_trip_status).                  *)

YardVehicle(i, st) ==
    VehicleRow([VehicleBase EXCEPT !.license_plate = PlateText(i),
                                   !.max_capacity_kg = Some(2),
                                   !.status = st])

YardDriver(i, st) ==
    [name |-> "Dee", license_number |-> Upper(LicenseText(i)),
     license_expiry_date |-> IsoDate(1), status |-> st,
     safety_score |-> DefaultSafetyScore]

InitDispatch ==
    /\ phase = "ready"
    /\ users = StaffUsers
    /\ userSeq = 4
    /\ session = [c \in StaffClients |->
                    IF c = 1 THEN NoSession
                    ELSE [user_id |-> c - 1, username |-> StaffName(c - 1),
                          role |-> StaffRole(c)]]
    /\ flashed = ""
    /\ \E sts \in [1..MaxYard -> VehicleStatuses] :
            vehicles = [i \in 1..MaxYard |-> YardVehicle(i, sts[i])]
    /\ vehicleSeq = MaxYard
    /\ \E sts \in [1..MaxYard -> DriverStatuses] :
            drivers = [i \in 1..MaxYard |-> YardDriver(i, sts[i])]
    /\ driverSeq = MaxYard
    /\ trips = EmptyTable
    /\ tripSeq = 0
    /\ maintenance_logs = <<>>
    /\ fuel_logs = <<>>
    /\ today = 1
    /\ inflight = [w \in Workers |-> Idle]

DispatcherBrowser == CHOOSE c \in StaffClients : session[c].role = "Dispatcher"

YardTripForms ==
    {[TripBase EXCEPT !.vehicle_id = Some(v), !.driver_id = Some(d), !.status = st] :
        v \in 1..MaxYard, d \in 1..MaxYard, st \in TripStatuses}

DispatcherCreateTrip ==
    /\ tripSeq < MaxRuns
    /\ \E f \in YardTripForms : trips_post(DispatcherBrowser, f)

DispatcherUpdateTripStatus ==
    \E id \in 1..MaxRuns, st \in TripStatuses :
        update_trip_status(DispatcherBrowser, id, st)

NextDispatch ==
    \/ DispatcherCreateTrip
    \/ DispatcherUpdateTripStatus

SpecDispatch == InitDispatch /\ [][NextDispatch]_vars

\* Two different trips are Dispatched with the same vehicle.
VehicleDispatchedTwice ==
    \E t1, t2 \in DOMAIN trips :
        /\ t1 # t2
        /\ trips[t1].status = "Dispatched" /\ trips[t2].status = "Dispatched"
        /\ trips[t1].vehicle_id = trips[t2].vehicle_id

\* Two different trips are Dispatched with the same driver.
DriverDispatchedTwice ==
    \E t1, t2 \in DOMAIN trips :
        /\ t1 # t2
        /\ trips[t1].status = "Dispatched" /\ trips[t2].status = "Dispatched"
        /\ trips[t1].driver_id = trips[t2].driver_id

\* C11: in every state the Dispatcher's requests alone lead to, no vehicle
\* is the vehicle of two Dispatched trips and no driver is the driver of two
\* Dispatched trips.
C11_NoDoubleDispatch == ~VehicleDispatchedTwice /\ ~DriverDispatchedTwice

---------------------------------------------------------------------------
(* Claims about the shop, the safety screen and deletions, checked under   *)
(* SpecFleet                                                               *)

\* C12: no trip is created on, and no trip's status is changed for, a
\* vehicle that is 'In Shop'; the rejected request changes no trip, vehicle
\* or driver; a vehicle that is 'In Shop' keeps that status in every step
\* but an edit_vehicle of a Manager's session.
C12_InShopBlocksTrips ==
    [][/\ \A t \in DOMAIN trips' :
            TripTouched(t) =>
                /\ trips'[t].vehicle_id \in DOMAIN vehicles
                /\ vehicles[trips'[t].vehicle_id].status # "In Shop"
       /\ RejectedKeepsFleet
       /\ \A v \in DOMAIN vehicles \cap DOMAIN vehicles' :
            (vehicles[v].status = "In Shop" /\ vehicles'[v].status # "In Shop") =>
                \E c \in StaffClients :
                    /\ session[c].role = "Manager"
                    /\ \E f \in FormsOf(c, "Manager", VehicleForms, VehicleBase) :
                            edit_vehicle(c, v, f)
      ]_vars

\* A Dispatched trip whose vehicle has gone to the shop, after a request was
\* turned away.
C12_Witness ==
    \E t \in DOMAIN trips :
        /\ trips[t].status = "Dispatched"
        /\ vehicles[trips[t].vehicle_id].status = "In Shop"
        /\ maintenance_logs # <<>>
        /\ flashed = Error

\* The form names no vehicle of the table, or one of its fields is missing
\* or malformed.
MaintenanceFormInvalid(f) ==
    \/ f.vehicle_id = None
    \/ Val(f.vehicle_id) \notin DOMAIN vehicles
    \/ Strip(f.description) = ""
    \/ f.cost = None
    \/ Val(f.cost) < 0
    \/ f.date.kind # "iso"

\* C13: a maintenance request for an existing vehicle appends the log and
\* sets that vehicle's status to 'In Shop' in one step, both or neither,
\* whatever the status was; with a vehicle that does not exist or an invalid
\* field, no log is added and no vehicle changes.
C13_MaintenanceAtomic ==
    [][/\ maintenance_logs' # maintenance_logs =>
            /\ Len(maintenance_logs') = Len(maintenance_logs) + 1
            /\ SubSeq(maintenance_logs', 1, Len(maintenance_logs)) = maintenance_logs
            /\ LET id == maintenance_logs'[Len(maintenance_logs')].vehicle_id
               IN  /\ id \in DOMAIN vehicles
                   /\ vehicles' = [vehicles EXCEPT ![id].status = "In Shop"]
       /\ \A c \in StaffClients :
            \A f \in FormsOf(c, "Manager", MaintenanceForms, MaintenanceBase) :
                /\ (/\ <<maintenance_logs, vehicles>>' # <<maintenance_logs, vehicles>>
                    /\ maintenance(c, f)) =>
                        /\ maintenance_logs' # maintenance_logs
                        /\ ~MaintenanceFormInvalid(f)
                /\ (/\ session[c].role = "Manager"
                    /\ ~MaintenanceFormInvalid(f)
                    /\ maintenance(c, f)) =>
                        maintenance_logs' # maintenance_logs
      ]_vars

\* A vehicle that was 'On Trip' has been logged into the shop.
C13_Witness ==
    \E t \in DOMAIN trips :
        /\ trips[t].status = "Dispatched"
        /\ vehicles[trips[t].vehicle_id].status = "In Shop"
        /\ \E i \in DOMAIN maintenance_logs :
                maintenance_logs[i].vehicle_id = trips[t].vehicle_id
        /\ flashed = Success

\* C14: a safety_update_driver request that asks for 'Suspended' for a
\* driver who is 'On Trip' is rejected and leaves the driver's status and
\* safety score as they were; a request that changes a driver carries the
\* status Available or Suspended and a safety score from 0 to 100, and the
\* driver gets exactly these.
C14_NoSuspendOnTrip ==
    [][\A c \in StaffClients, id \in DriverIds :
        \A f \in FormsOf(c, "Safety Officer", SafetyForms, SafetyBase) :
            /\ (/\ id \in DOMAIN drivers
                /\ drivers[id].status = "On Trip"
                /\ Strip(f.status) = "Suspended"
                /\ safety_update_driver(c, id, f.safety_score, f.status)) =>
                    (UNCHANGED drivers /\ flashed' # Success)
            /\ (/\ drivers' # drivers
                /\ safety_update_driver(c, id, f.safety_score, f.status)) =>
                    /\ Strip(f.status) \in {"Available", "Suspended"}
                    /\ f.safety_score # None
                    /\ Val(f.safety_score) \in 0..100
                    /\ id \in DOMAIN drivers
                    /\ drivers' = [drivers EXCEPT ![id].status = Strip(f.status),
                                                  ![id].safety_score = Val(f.safety_score)]
      ]_vars

\* A driver the Safety Officer has scored is 'On Trip', and a request was
\* turned away.
C14_Witness ==
    \E d \in DOMAIN drivers :
        /\ drivers[d].status = "On Trip"
        /\ drivers[d].safety_score # DefaultSafetyScore
        /\ \E t \in DOMAIN trips : trips[t].driver_id = d /\ trips[t].status = "Dispatched"
        /\ flashed = Error

---------------------------------------------------------------------------
(* The status of a user row, checked under Spec *)

\* C15: approve_user and reject_user change a user's status only when it
\* is 'pending', to 'approved' and to 'rejected'; the status of a row that
\* is approved or rejected never changes; on a row that is not pending, or
\* on no row, either request leaves the users table as it was.
C15_StatusWorkflow ==
    [][/\ \A id \in DOMAIN users \cap DOMAIN users' :
            users'[id].status # users[id].status =>
                /\ users[id].status = STATUS_PENDING
                /\ users'[id].status \in {STATUS_APPROVED, STATUS_REJECTED}
       /\ \A c \in Browsers, id \in UserIds :
            /\ (users' # users /\ approve_user(c, id)) =>
                    /\ id \in DOMAIN users
                    /\ users[id].status = STATUS_PENDING
                    /\ users' = [users EXCEPT ![id].status = STATUS_APPROVED]
            /\ (users' # users /\ reject_user(c, id)) =>
                    /\ id \in DOMAIN users
                    /\ users[id].status = STATUS_PENDING
                    /\ users' = [users EXCEPT ![id].status = STATUS_REJECTED]
      ]_vars

\* One registered user is approved, another is rejected, and a request was
\* turned away.
C15_Witness ==
    /\ \E id \in DOMAIN users :
            users[id].role # "Manager" /\ users[id].status = STATUS_APPROVED
    /\ \E id \in DOMAIN users : users[id].status = STATUS_REJECTED
    /\ flashed = Error

---------------------------------------------------------------------------
(* Deletions and the end of a trip, checked under SpecFleet *)

VehicleInUse(v) == \E t \in DOMAIN trips : trips[t].vehicle_id = v

DriverInUse(d) == \E t \in DOMAIN trips : trips[t].driver_id = d

\* C16: after every step each trip's vehicle_id and driver_id name an
\* existing vehicle and an existing driver; no step removes a vehicle or a
\* driver that a trip refers to; delete_vehicle and delete_driver change no
\* table when asked for one.
C16_ReferencedNeverDeleted ==
    [][/\ \A t \in DOMAIN trips' :
            /\ trips'[t].vehicle_id \in DOMAIN vehicles'
            /\ trips'[t].driver_id \in DOMAIN drivers'
       /\ \A v \in DOMAIN vehicles \ DOMAIN vehicles' : ~VehicleInUse(v)
       /\ \A d \in DOMAIN drivers \ DOMAIN drivers' : ~DriverInUse(d)
       /\ Tables' # Tables =>
            \A c \in StaffClients :
                /\ \A v \in VehicleIds : delete_vehicle(c, v) => ~VehicleInUse(v)
                /\ \A d \in DriverIds : delete_driver(c, d) => ~DriverInUse(d)
      ]_vars

\* A trip exists, its vehicle and driver are in their tables, and a request
\* of the Manager was turned away.
C16_Witness ==
    \E t \in DOMAIN trips :
        /\ trips[t].vehicle_id \in DOMAIN vehicles
        /\ trips[t].driver_id \in DOMAIN drivers
        /\ trips[t].status = "Cancelled"
        /\ flashed = Error

\* C17: Completed and Cancelled are terminal: no step (update_trip_status
\* is the only view that writes a stored trip's status) changes the status
\* of a trip that is Completed or Cancelled.
C17_TerminalStatuses ==
    [][\A t \in DOMAIN trips \cap DOMAIN trips' :
            trips[t].status \in {"Completed", "Cancelled"} =>
                trips'[t].status = trips[t].status
      ]_vars

====
